---- MODULE Spec2Model ----
(***************************************************************************)
(* Model of unpack-dataset.py: checksum reading, safe extraction of        *)
(* .tar.xz archives and the two-level directory walk of process().         *)
(*                                                                         *)
(* Representation of data:                                                 *)
(*  - the text of a checksum file and a digest are run-length encoded      *)
(*    strings: a sequence of runs [c |-> character, n |-> repetitions], so *)
(*    that the real digest length (64) is kept;                            *)
(*  - a file name is the sequence of its characters;                       *)
(*  - a path is the sequence of its components (file names), an absolute   *)
(*    path starting with the component Slash.                              *)
(***************************************************************************)
EXTENDS Integers, Sequences, FiniteSets, TLC

VARIABLES
    pc,            \* position of the program
    argv,          \* the command line, and whether src_dir is a directory
    exit_code,     \* exit status of the interpreter, -1 while running
    result,        \* value returned by process(), -1 while there is none
    checksum_dir,  \* the top-level checksum directory handed to process_top_level
    top,           \* the top-level step: archive found, checksum failed, value returned
    sub,           \* the subdirectory process_subdir is working on
    has_checksums, \* process_subdir: the subdirectory holds a checksums folder
    archives,      \* process_subdir: sorted(src_dir.glob("*.tar.xz"))
    idx,           \* process_subdir: number of loop iterations begun
    total,         \* process_subdir: total
    ok,            \* process_subdir: ok
    last,          \* what the latest step on an archive observed and did
    reader_file,   \* a checksum file handed to read_expected_sha256
    reader_ret     \* the value read_expected_sha256 returned for it

vars == <<pc, argv, exit_code, result, checksum_dir, top, sub, has_checksums,
          archives, idx, total, ok, last, reader_file, reader_ret>>

(***************************************************************************)
(* Bounds of the model.                                                    *)
(***************************************************************************)
MaxRuns == 3       \* runs in the text of a checksum file
MaxMembers == 2    \* members of a tar archive
MaxEntries == 2    \* entries of a subdirectory

(***************************************************************************)
(* Run-length encoded strings.                                             *)
(***************************************************************************)
HexLen == 64

Run(c, n) == [c |-> c, n |-> n]

\* Characters standing for the classes the code tells apart: "a" a lower-case
\* hex digit, "A" the same digit in upper case, "1" another hex digit, "g" a
\* character that is no hex digit, " " a blank and "\n" a line break.
LowerHexDigits == {"a", "1"}

Lower(c) == IF c = "A" THEN "a" ELSE c

IsHexChar(c) == Lower(c) \in LowerHexDigits

IsSpace(c) == c \in {" ", "\n"}

IsLineBreak(c) == c = "\n"

RECURSIVE Norm(_)
Norm(s) ==
    IF Len(s) <= 1 THEN s
    ELSE LET r == Norm(Tail(s))
         IN  IF Head(s).c = Head(r).c
             THEN <<Run(Head(s).c, Head(s).n + Head(r).n)>> \o Tail(r)
             ELSE <<Head(s)>> \o r

RECURSIVE StrLen(_)
StrLen(s) == IF s = <<>> THEN 0 ELSE Head(s).n + StrLen(Tail(s))

StrLower(s) == Norm([i \in 1..Len(s) |-> Run(Lower(s[i].c), s[i].n)])

RECURSIVE LStrip(_)
LStrip(s) ==
    IF s = <<>> THEN s
    ELSE IF IsSpace(Head(s).c) THEN LStrip(Tail(s)) ELSE s

RECURSIVE RStrip(_)
RStrip(s) ==
    IF s = <<>> THEN s
    ELSE IF IsSpace(s[Len(s)].c) THEN RStrip(SubSeq(s, 1, Len(s) - 1)) ELSE s

StrStrip(s) == RStrip(LStrip(s))

\* s.splitlines()[0] of a string that is not empty
RECURSIVE FirstLine(_)
FirstLine(s) ==
    IF s = <<>> THEN s
    ELSE IF IsLineBreak(Head(s).c) THEN <<>> ELSE <<Head(s)>> \o FirstLine(Tail(s))

RECURSIVE UpToSpace(_)
UpToSpace(s) ==
    IF s = <<>> THEN s
    ELSE IF IsSpace(Head(s).c) THEN <<>> ELSE <<Head(s)>> \o UpToSpace(Tail(s))

\* s.split() is the empty list, so that s.split()[0] raises IndexError
SplitIsEmpty(s) == LStrip(s) = <<>>

\* s.split()[0]
FirstToken(s) == UpToSpace(LStrip(s))

\* "".join(c for c in token if c.lower() in "0123456789abcdef")
HexOnlyKeepAll(token) == token

HexOnly(token) == SelectSeq(token, LAMBDA r : IsHexChar(r.c))

\* None, as returned by read_expected_sha256
NoDigest == <<Run("None", 0)>>

read_expected_sha256(file) ==
    IF ~file.readable THEN NoDigest      \* read_text raises: except Exception
    ELSE LET text == StrStrip(file.content)
         IN  IF text = <<>> THEN NoDigest
             ELSE LET first_line == StrStrip(FirstLine(text))
                  IN  IF SplitIsEmpty(first_line) THEN NoDigest   \* IndexError
                      ELSE LET token == Norm(HexOnly(StrStrip(FirstToken(first_line))))
                           IN  IF StrLen(token) = HexLen THEN token ELSE NoDigest

(***************************************************************************)
(* The checksum files read_expected_sha256 is tried on.                    *)
(***************************************************************************)
TextChars == {"a", "A", "g", " ", "\n"}

RunLens == {1, HexLen - 1, HexLen}

Runs == {Run(c, n) : c \in TextChars, n \in RunLens}

Texts == UNION {[1..k -> Runs] : k \in 0..MaxRuns}

ShaFiles == [readable : BOOLEAN, content : Texts]

NoFile == [readable |-> FALSE, content |-> <<>>]

(***************************************************************************)
(* File names and paths.                                                   *)
(***************************************************************************)
TOP_LEVEL_ARCHIVE_NAME ==
    <<"a", "l", "l", "_", "a", "t", "t", "a", "c", "k", "_", "b", "e", "n", "i", "g",
      "n", "_", "s", "a", "m", "p", "l", "e", "s", ".", "t", "a", "r", ".", "x", "z">>

EXTRACTED_ATTACK_DATA ==
    <<"e", "x", "t", "r", "a", "c", "t", "e", "d", "_", "a", "t", "t", "a", "c", "k",
      "_", "d", "a", "t", "a">>

EXTRACTED_BENIGN_DATA ==
    <<"e", "x", "t", "r", "a", "c", "t", "e", "d", "_", "b", "e", "n", "i", "g", "n",
      "_", "d", "a", "t", "a">>

DotTarXz == <<".", "t", "a", "r", ".", "x", "z">>

DotXz == <<".", "x", "z">>

DotTar == <<".", "t", "a", "r">>

NameA == <<"a", ".", "t", "a", "r", ".", "x", "z">>

NameB == <<"b", ".", "t", "a", "r", ".", "x", "z">>

NamePayload == <<"p", "a", "y", "l", "o", "a", "d", ".", "t", "a", "r", ".", "x", "z">>

NameOther == <<"c", ".", "x", "z">>

Slash == <<"/">>

DotDot == <<".", ".">>

Dot == <<".">>

\* the destination directory of the run, already resolved (main, line 228)
DestDir == <<Slash, <<"d", "e", "s", "t">>>>

ExtractedAttackDir == DestDir \o <<EXTRACTED_ATTACK_DATA>>

ExtractedBenignDir == DestDir \o <<EXTRACTED_BENIGN_DATA>>

\* the characters of the names above in code point order
CodePoints ==
    <<".", "_", "a", "b", "c", "d", "e", "g", "i", "k", "l", "m", "n", "o", "p",
      "r", "s", "t", "x", "y", "z">>

Ord(c) == CHOOSE i \in 1..Len(CodePoints) : CodePoints[i] = c

\* s < t for two strings, as Python compares them
RECURSIVE StrLess(_, _)
StrLess(s, t) ==
    IF t = <<>> THEN FALSE
    ELSE IF s = <<>> THEN TRUE
    ELSE IF Head(s) = Head(t) THEN StrLess(Tail(s), Tail(t))
    ELSE Ord(Head(s)) < Ord(Head(t))

EndsWith(s, suffix) ==
    /\ Len(s) >= Len(suffix)
    /\ SubSeq(s, Len(s) - Len(suffix) + 1, Len(s)) = suffix

\* s[:-k]
DropLast(s, k) == SubSeq(s, 1, Len(s) - k)

\* dest_dir / m.name: an absolute name replaces the directory
JoinPath(dir, name) == IF name # <<>> /\ Head(name) = Slash THEN name ELSE dir \o name

\* Path.resolve() of an absolute path in a tree without symbolic links
RECURSIVE ResolveFrom(_, _)
ResolveFrom(done, rest) ==
    IF rest = <<>> THEN done
    ELSE IF Head(rest) = Dot THEN ResolveFrom(done, Tail(rest))
    ELSE IF Head(rest) = DotDot
         THEN ResolveFrom(IF Len(done) > 1 THEN DropLast(done, 1) ELSE done, Tail(rest))
    ELSE ResolveFrom(Append(done, Head(rest)), Tail(rest))

Resolve(path) == ResolveFrom(<<Slash>>, Tail(path))

\* str(target.resolve()).startswith(str(dest_dir.resolve()) + os.sep)
TargetAllowedAlways(dest_dir, name) == TRUE

TargetAllowed(dest_dir, name) ==
    LET target == Resolve(JoinPath(dest_dir, name))
        dest == Resolve(dest_dir)
    IN  /\ Len(target) > Len(dest)
        /\ SubSeq(target, 1, Len(dest)) = dest

(***************************************************************************)
(* extract_tar_xz.  The content of an archive file is                      *)
(*   kind "tar":        an xz-compressed tar stream with these members     *)
(*   kind "rawxz":      an xz stream that is no tar stream                 *)
(*   kind "notxz":      bytes that are no xz stream                        *)
(*   kind "unreadable": the file cannot be opened                          *)
(* io is -1 when every write succeeds, and k >= 0 when writing fails after *)
(* k members (or, in raw mode, after the output file was created).         *)
(***************************************************************************)
MemberIn == <<<<"f">>>>

MemberUp == <<DotDot, EXTRACTED_BENIGN_DATA, <<"x">>>>

MemberAbs == <<Slash, <<"e">>>>

MemberNames == {MemberIn, MemberUp, MemberAbs}

Contents ==
    {[kind |-> "tar", members |-> m] :
        m \in UNION {[1..k -> MemberNames] : k \in 0..MaxMembers}}
    \cup {[kind |-> k, members |-> <<>>] : k \in {"rawxz", "notxz", "unreadable"}}

IOOutcomes == -1..(MaxMembers - 1)

File(path, data) == [path |-> path, data |-> data]

\* out_name: the archive's name without a trailing .xz and then a trailing .tar
RawOutNameXzOnly(name) == IF EndsWith(name, DotXz) THEN DropLast(name, 3) ELSE name

RawOutName(name) ==
    LET out_name == IF EndsWith(name, DotXz) THEN DropLast(name, 3) ELSE name
    IN  IF EndsWith(out_name, DotTar) THEN DropLast(out_name, 4) ELSE out_name

Returns(kind, wrote) == [ret |-> kind, err |-> "", wrote |-> wrote]

Raises(err, wrote) == [ret |-> "exc", err |-> err, wrote |-> wrote]

\* lines 76-89: the raw-stream fallback
RawDecompress(name, content, dest_dir, io) ==
    LET raw_out == Resolve(dest_dir \o <<RawOutName(name)>>)
    IN  IF content.kind = "notxz" THEN Raises("LZMAError", {File(raw_out, "empty")})
        ELSE IF io >= 0 THEN Raises("OSError", {File(raw_out, "partial")})
        ELSE Returns("rawxz", {File(raw_out, "decompressed")})

\* lines 65-72: the archive opened as a tar.xz container
ExtractMembers(content, dest_dir, io) ==
    LET members == content.members
        written(k) == {File(Resolve(JoinPath(dest_dir, members[i])), "member") : i \in 1..k}
    IN  IF \E i \in 1..Len(members) : ~TargetAllowed(dest_dir, members[i])
        THEN Raises("Blocked path traversal attempt", {})
        ELSE IF io >= 0 /\ io < Len(members) THEN Raises("OSError", written(io))
        ELSE Returns("tarxz", written(Len(members)))

extract_tar_xz(name, content, dest_dir, io) ==
    IF content.kind = "unreadable" THEN Raises("OSError", {})
    ELSE IF content.kind = "tar" THEN ExtractMembers(content, dest_dir, io)
    ELSE RawDecompress(name, content, dest_dir, io)   \* except tarfile.ReadError: pass

\* sha256_file: the digest of a readable file is a lower-case hex string
Digests == {<<Run("a", HexLen)>>, <<Run("1", HexLen)>>}

(***************************************************************************)
(* What the environment can hold when the program looks at it.             *)
(***************************************************************************)
PoolTexts ==
    { <<Run("a", HexLen)>>,                            \* <hash>
      <<Run("A", HexLen), Run(" ", 2), Run("g", 1)>>,  \* <HASH>  filename
      <<Run("a", HexLen - 1)>>,                        \* too short
      <<Run("g", 1), Run("a", HexLen)>> }              \* a token with a foreign character

\* sha_file.exists() and, when it does, the file
ShaStates ==
    {[exists |-> FALSE, file |-> NoFile]}
    \cup {[exists |-> TRUE, file |-> [readable |-> TRUE, content |-> t]] : t \in PoolTexts}
    \cup {[exists |-> TRUE, file |-> NoFile]}

ShaNotLooked == [exists |-> FALSE, file |-> NoFile]

ContentNotLooked == [kind |-> "unknown", members |-> <<>>]

\* an archive file and what writing its output meets
ExtractInputs ==
    {inp \in [content : Contents, io : IOOutcomes] :
        \/ inp.io = -1
        \/ /\ inp.content.kind = "tar"
           /\ inp.io < Len(inp.content.members)
           /\ \A i \in 1..Len(inp.content.members) : inp.content.members[i] = MemberIn
        \/ inp.content.kind = "rawxz" /\ inp.io = 0}

EntryPool == {NameA, NameB, NamePayload, NameOther}

\* the entries of a directory, in the order the file system lists them
Listings ==
    {l \in UNION {[1..k -> EntryPool] : k \in 0..MaxEntries} :
        \A i, j \in 1..Len(l) : l[i] = l[j] => i = j}

\* src_dir.glob("*.tar.xz")
Glob(listing) == SelectSeq(listing, LAMBDA name : EndsWith(name, DotTarXz))

RECURSIVE Insert(_, _)
Insert(x, s) ==
    IF s = <<>> THEN <<x>>
    ELSE IF StrLess(x, Head(s)) THEN <<x>> \o s
    ELSE <<Head(s)>> \o Insert(x, Tail(s))

Unsorted(s) == s

RECURSIVE sorted(_)
sorted(s) == IF s = <<>> THEN <<>> ELSE Insert(Head(s), sorted(Tail(s)))

\* actual.lower() != expected.lower()
Mismatch(actual, expected) == StrLower(actual) # StrLower(expected)

(***************************************************************************)
(* process_top_level, lines 98-113: the verdict on the top-level archive.  *)
(***************************************************************************)
TopChecksumNoCompare(sha, content, digest) ==
    IF ~sha.exists THEN "missing"
    ELSE IF read_expected_sha256(sha.file) = NoDigest THEN "invalid"
    ELSE IF content.kind = "unreadable" THEN "hash_raises"
    ELSE "passed"

TopChecksum(sha, content, digest) ==
    IF ~sha.exists THEN "missing"
    ELSE IF read_expected_sha256(sha.file) = NoDigest THEN "invalid"
    ELSE IF content.kind = "unreadable" THEN "hash_raises"   \* sha256_file: open fails
    ELSE IF Mismatch(digest, read_expected_sha256(sha.file)) THEN "mismatch"
    ELSE "passed"

(***************************************************************************)
(* process_subdir, lines 149-162: the verdict on one nested archive.       *)
(***************************************************************************)
NestedChecksumNoCompare(sha, content, digest) ==
    IF ~sha.exists THEN "missing"
    ELSE IF read_expected_sha256(sha.file) = NoDigest THEN "invalid"
    ELSE IF content.kind = "unreadable" THEN "hash_raises"
    ELSE "passed"

NestedChecksum(sha, content, digest) ==
    IF ~sha.exists THEN "missing"
    ELSE IF read_expected_sha256(sha.file) = NoDigest THEN "invalid"
    ELSE IF content.kind = "unreadable" THEN "hash_raises"   \* sha256_file: open fails
    ELSE IF Mismatch(digest, read_expected_sha256(sha.file)) THEN "mismatch"
    ELSE "passed"

Event(op, dir, res) == [op |-> op, dir |-> dir, res |-> res]

\* the operations of one step on its archive, in the order the code performs them
Operations(verdict, dir, ex) ==
    (IF verdict \in {"mismatch", "passed"} THEN <<Event("hash", <<>>, "ok")>>
     ELSE IF verdict = "hash_raises" THEN <<Event("hash", <<>>, "exc")>>
     ELSE <<>>)
    \o (IF ex.ret = "none" THEN <<>> ELSE <<Event("extract", dir, ex.ret)>>)

\* what a step saw of the checksum file, the digest and the archive, and what it did
Seen(where, name, enforce, verdict, sha, digest, content, dir, ex, msg) ==
    LET read == enforce /\ sha.exists
        hashed == verdict \in {"mismatch", "passed"}
        opened == verdict = "hash_raises" \/ ex.ret # "none"
    IN  [sub |-> where, name |-> name, enforce |-> enforce, verdict |-> verdict,
         sha |-> IF enforce THEN sha ELSE ShaNotLooked,
         expected |-> IF read THEN read_expected_sha256(sha.file) ELSE NoDigest,
         actual |-> IF hashed THEN digest ELSE NoDigest,
         content |-> IF opened THEN content ELSE ContentNotLooked,
         ops |-> Operations(verdict, dir, ex),
         ret |-> ex.ret, err |-> ex.err, wrote |-> ex.wrote, msg |-> msg]

NotExtracted == Returns("none", {})

NothingSeen ==
    Seen("none", <<>>, FALSE, "none", ShaNotLooked, NoDigest, ContentNotLooked, <<>>,
         NotExtracted, "none")

\* The inputs of a step: the checksum file, the archive's digest, the archive
\* and the outcome of writing.  An input the step never reads is fixed: the
\* checksum file without enforcement, the digest without a valid checksum file
\* or of an archive that cannot be read, the archive when the step leaves it
\* unopened (skips: a missing or invalid checksum file skips the archive).
StepInputs(enforce, skips) ==
    {in \in [sha : IF enforce THEN ShaStates ELSE {ShaNotLooked},
             digest : Digests,
             content : Contents,
             io : IOOutcomes] :
        LET valid == /\ enforce
                     /\ in.sha.exists
                     /\ read_expected_sha256(in.sha.file) # NoDigest
            differs == /\ valid
                       /\ Mismatch(in.digest, read_expected_sha256(in.sha.file))
            unopened == in.content.kind = "rawxz" /\ in.io = -1
        IN  /\ [content |-> in.content, io |-> in.io] \in ExtractInputs
            /\ (~valid \/ in.content.kind = "unreadable") =>
                  in.digest = <<Run("a", HexLen)>>
            /\ (enforce /\ ~valid /\ skips) => unopened
            /\ (differs /\ in.content.kind # "unreadable") => unopened}

\* process_top_level without and with a checksum directory
TopInputsOff == StepInputs(FALSE, FALSE)

TopInputsOn == StepInputs(TRUE, FALSE)

\* process_subdir without and with a checksums folder
NestedInputsOff == StepInputs(FALSE, TRUE)

NestedInputsOn == StepInputs(TRUE, TRUE)

(***************************************************************************)
(* The program.                                                            *)
(***************************************************************************)
\* the command line: no argument; src_dir with or without dest_dir, src_dir
\* being a directory or not; more arguments than the parser takes
Argvs ==
    {[args |-> "none", src_is_dir |-> FALSE], [args |-> "surplus", src_is_dir |-> FALSE]}
    \cup {[args |-> "src_dir [dest_dir]", src_is_dir |-> d] : d \in BOOLEAN}

NoTop == [found |-> "unknown", checksum_failed |-> FALSE, rc |-> -1]

InitWith(argvs, dirs) ==
    /\ pc = "start"
    /\ argv \in argvs
    /\ exit_code = -1
    /\ result = -1
    /\ checksum_dir \in dirs
    /\ top = NoTop
    /\ sub = "none"
    /\ has_checksums = FALSE
    /\ archives = <<>>
    /\ idx = 0
    /\ total = 0
    /\ ok = 0
    /\ last = NothingSeen
    /\ reader_file = NoFile
    /\ reader_ret = <<>>

\* line 193: checksum_dir = None
Init == InitWith(Argvs, {"None"})

\* lines 233-248: with no argument the configured directories are processed
EntryPoint ==
    /\ pc = "start"
    /\ pc' = IF argv.args # "none" THEN "main" ELSE "process"
    /\ UNCHANGED <<argv, exit_code, result, checksum_dir, top, sub, has_checksums,
                   archives, idx, total, ok, last, reader_file, reader_ret>>

\* lines 216-231: parse_args exits with 2 on a surplus argument
main ==
    /\ pc = "main"
    /\ IF argv.args = "surplus" \/ ~argv.src_is_dir
       THEN pc' = "exited" /\ exit_code' = 2
       ELSE pc' = "process" /\ exit_code' = exit_code
    /\ UNCHANGED <<argv, result, checksum_dir, top, sub, has_checksums,
                   archives, idx, total, ok, last, reader_file, reader_ret>>

\* lines 188-200
process ==
    /\ pc = "process"
    /\ \E exists \in BOOLEAN :
          IF exists
          THEN /\ pc' = "top_level"
               /\ result' = result
               /\ top' = [top EXCEPT !.found = "yes"]
          ELSE /\ pc' = "returned"
               /\ result' = 1
               /\ top' = [top EXCEPT !.found = "no"]
    /\ UNCHANGED <<argv, exit_code, checksum_dir, sub, has_checksums,
                   archives, idx, total, ok, last, reader_file, reader_ret>>

TopMessage(verdict) ==
    IF verdict = "missing" THEN "checksum file missing -> extract unconditionally"
    ELSE IF verdict = "invalid" THEN "invalid checksum file format -> extract unconditionally"
    ELSE IF verdict = "mismatch" THEN "checksum FAILED -> SKIP"
    ELSE IF verdict = "passed" THEN "checksum passed"
    ELSE "none"

\* lines 91-124: the value process_top_level returns, -1 when it raises
TopReturn(verdict, ex) ==
    IF verdict = "hash_raises" THEN -1
    ELSE IF ex.ret \in {"tarxz", "rawxz"} THEN 1 ELSE 0

\* lines 91-124, and the caller's lines 194-197
ProcessTopLevel ==
    /\ pc = "top_level"
    /\ \E in \in (IF checksum_dir = "dir" THEN TopInputsOn ELSE TopInputsOff) :
          LET enforce == checksum_dir = "dir"
              verdict == IF enforce THEN TopChecksum(in.sha, in.content, in.digest)
                         ELSE "off"
              ex == IF verdict \in {"missing", "invalid", "passed", "off"}
                    THEN extract_tar_xz(TOP_LEVEL_ARCHIVE_NAME, in.content, DestDir, in.io)
                    ELSE NotExtracted
              rc == TopReturn(verdict, ex)
          IN  /\ last' = Seen("top", TOP_LEVEL_ARCHIVE_NAME, enforce, verdict, in.sha,
                              in.digest, in.content, DestDir, ex, TopMessage(verdict))
              /\ top' = [top EXCEPT !.checksum_failed = (verdict = "mismatch"), !.rc = rc]
              /\ pc' = IF rc = -1 THEN "raised"
                       ELSE IF rc = 1 THEN "attack_data" ELSE "returned"
              /\ result' = IF rc = 0 THEN 1 ELSE result
    /\ UNCHANGED <<argv, exit_code, checksum_dir, sub, has_checksums,
                   archives, idx, total, ok, reader_file, reader_ret>>

\* lines 203-206 and 209-212 with lines 131-143 of process_subdir
EnterSubdir(name, skip_to) ==
    \E is_dir \in BOOLEAN, checksums_is_dir \in BOOLEAN, listing \in Listings :
        LET found == sorted(Glob(listing))
        IN  IF ~is_dir \/ found = <<>>
            THEN /\ pc' = skip_to
                 /\ UNCHANGED <<sub, has_checksums, archives, idx, total, ok>>
            ELSE /\ pc' = "loop"
                 /\ sub' = name
                 /\ has_checksums' = checksums_is_dir
                 /\ archives' = found
                 /\ idx' = 0
                 /\ total' = 0
                 /\ ok' = 0

AttackData ==
    /\ pc = "attack_data"
    /\ EnterSubdir("attack_data", "benign_data")
    /\ last' = NothingSeen          \* process_top_level has returned
    /\ UNCHANGED <<argv, exit_code, result, checksum_dir, top,
                   reader_file, reader_ret>>

BenignData ==
    /\ pc = "benign_data"
    /\ EnterSubdir("benign_data", "return")
    /\ UNCHANGED <<argv, exit_code, result, checksum_dir, top, last,
                   reader_file, reader_ret>>

\* lines 205 and 211: the folder a subdirectory's archives are extracted to
OutDir(name) == IF name = "attack_data" THEN ExtractedAttackDir ELSE ExtractedBenignDir

NestedMessage(verdict) ==
    IF verdict = "missing" THEN "checksum file missing -> SKIP"
    ELSE IF verdict = "invalid" THEN "invalid checksum file format -> SKIP"
    ELSE IF verdict = "mismatch" THEN "checksum FAILED -> SKIP"
    ELSE IF verdict = "passed" THEN "checksum passed"
    ELSE "none"

\* lines 169 and 176: ok += 1 after an extraction that did not raise
Counted(count, ex) == IF ex.ret \in {"tarxz", "rawxz"} THEN count + 1 ELSE count

\* lines 144-178: one iteration of the loop of process_subdir
LoopBody ==
    /\ pc = "loop"
    /\ idx < Len(archives)
    /\ \E in \in (IF has_checksums THEN NestedInputsOn ELSE NestedInputsOff) :
          LET arc == archives[idx + 1]
              out_subdir == OutDir(sub)
              verdict == IF has_checksums
                         THEN NestedChecksum(in.sha, in.content, in.digest)
                         ELSE "off"
              ex == IF verdict \in {"passed", "off"}
                    THEN extract_tar_xz(arc, in.content, out_subdir, in.io)
                    ELSE NotExtracted
          IN  /\ last' = Seen(sub, arc, has_checksums, verdict, in.sha, in.digest,
                              in.content, out_subdir, ex, NestedMessage(verdict))
              /\ ok' = Counted(ok, ex)
              /\ pc' = IF verdict = "hash_raises" THEN "raised" ELSE "loop"
    /\ idx' = idx + 1
    /\ total' = total + 1
    /\ UNCHANGED <<argv, exit_code, result, checksum_dir, top, sub, has_checksums,
                   archives, reader_file, reader_ret>>

\* lines 180-181: the summary, and the return to process
SubdirDone ==
    /\ pc = "loop"
    /\ idx = Len(archives)
    /\ pc' = IF sub = "attack_data" THEN "benign_data" ELSE "return"
    /\ last' = NothingSeen          \* the locals of the loop are gone
    /\ UNCHANGED <<argv, exit_code, result, checksum_dir, top, sub, has_checksums,
                   archives, idx, total, ok, reader_file, reader_ret>>

\* line 214
ProcessReturn ==
    /\ pc = "return"
    /\ pc' = "returned"
    /\ result' = 0
    /\ UNCHANGED <<argv, exit_code, checksum_dir, top, sub, has_checksums,
                   archives, idx, total, ok, last, reader_file, reader_ret>>

\* line 231: sys.exit(process(src, dest)); line 248: the value is dropped
Exit ==
    /\ pc = "returned"
    /\ pc' = "exited"
    /\ exit_code' = IF argv.args # "none" THEN result ELSE 0
    /\ UNCHANGED <<argv, result, checksum_dir, top, sub, has_checksums,
                   archives, idx, total, ok, last, reader_file, reader_ret>>

\* an exception nothing catches ends the interpreter with status 1
Uncaught ==
    /\ pc = "raised"
    /\ pc' = "exited"
    /\ exit_code' = 1
    /\ UNCHANGED <<argv, result, checksum_dir, top, sub, has_checksums,
                   archives, idx, total, ok, last, reader_file, reader_ret>>

Next ==
    \/ EntryPoint
    \/ main
    \/ process
    \/ ProcessTopLevel
    \/ AttackData
    \/ BenignData
    \/ LoopBody
    \/ SubdirDone
    \/ ProcessReturn
    \/ Exit
    \/ Uncaught

Spec == Init /\ [][Next]_vars

\* process_top_level with any checksum_dir its caller may configure (line 193),
\* the program being run on a source directory
InitTop ==
    InitWith({[args |-> "src_dir [dest_dir]", src_is_dir |-> TRUE]},
             {"None", "not a directory", "dir"})

SpecTop == InitTop /\ [][Next]_vars

(***************************************************************************)
(* read_expected_sha256 on its own.                                        *)
(***************************************************************************)
InitReader ==
    /\ pc = "reader"
    /\ argv = [args |-> "none", src_is_dir |-> FALSE]
    /\ exit_code = -1
    /\ result = -1
    /\ checksum_dir = "None"
    /\ top = NoTop
    /\ sub = "none"
    /\ has_checksums = FALSE
    /\ archives = <<>>
    /\ idx = 0
    /\ total = 0
    /\ ok = 0
    /\ last = NothingSeen
    /\ reader_file \in ShaFiles
    /\ reader_ret = <<>>

ReadExpectedSha256 ==
    /\ pc = "reader"
    /\ pc' = "reader_done"
    /\ reader_ret' = read_expected_sha256(reader_file)
    /\ UNCHANGED <<argv, exit_code, result, checksum_dir, top, sub, has_checksums,
                   archives, idx, total, ok, last, reader_file>>

NextReader == ReadExpectedSha256

SpecReader == InitReader /\ [][NextReader]_vars

(***************************************************************************)
(* Properties.                                                             *)
(***************************************************************************)
Nested(r) == r.sub \in {"attack_data", "benign_data"}

Attempted(r) == r.ret # "none"

Extracted(r) == r.ret \in {"tarxz", "rawxz"}

Hashed(r) == \E i \in 1..Len(r.ops) : r.ops[i].op = "hash"

\* the directory the step extracted to
TargetDir(r) == r.ops[Len(r.ops)].dir

\* process() has ended, by a return or by an exception
ProcessOver == pc \in {"returned", "raised"}

\* the top-level archive is missing, or its checksum or its extraction failed
TopFailed == top.found = "no" \/ top.checksum_failed \/ (top.found = "yes" /\ top.rc = 0)

\* C1: every run of process() yields 1 exactly when the top-level archive is
\* missing, fails its checksum or fails to extract, and 0 in every other run,
\* whatever happens to the nested archives.
C1_ResultIsTopLevelOutcome ==
    ProcessOver => result = (IF TopFailed THEN 1 ELSE 0)

\* C8: no failure of a single nested archive escapes process_subdir or
\* process(): the run never ends by an exception raised on a nested archive,
\* and a non-zero exit status after process() comes from the top level only.
C8_NestedFailuresAreCaught ==
    /\ ~(pc = "raised" /\ Nested(last))
    /\ (pc = "exited" /\ top.found # "unknown" /\ exit_code # 0) => TopFailed

\* C5: with a source directory that is missing from the command line or that
\* is no directory the program exits with code 2 and process() is never
\* called: nothing is looked for, hashed or extracted.
C5_ArgumentErrorExitsWith2 ==
    (argv.args = "none" \/ (argv.args = "src_dir [dest_dir]" /\ ~argv.src_is_dir)) =>
        /\ pc \in {"start", "main", "exited"}
        /\ pc = "exited" => exit_code = 2
        /\ top = NoTop
        /\ last = NothingSeen

\* C9: every enumerated archive is attempted whatever happened to the ones
\* before it: 0 <= ok <= total throughout, each iteration takes the next
\* archive and counts it in ok exactly when its extraction succeeded, and when
\* process_subdir ends total is the number of enumerated archives.
C9_EveryArchiveAttempted ==
    [][/\ 0 <= ok' /\ ok' <= total'
       /\ (pc = "loop" /\ idx' = idx + 1) =>
             /\ total' = total + 1
             /\ last'.name = archives[total']
             /\ ok' = ok + (IF Extracted(last') THEN 1 ELSE 0)
       /\ (pc = "loop" /\ pc' # "loop") => total' = Len(archives')]_vars

Differs(r) ==
    /\ r.actual # NoDigest
    /\ r.expected # NoDigest
    /\ StrLower(r.actual) # StrLower(r.expected)

\* C2: with a checksums folder a nested archive is extracted only if its
\* checksum file exists, holds a valid digest and that digest equals the
\* digest computed of the archive; a missing file, an invalid file or a
\* mismatch skips that one archive (nothing extracted, not counted, the loop
\* goes on).  Without a checksums folder every archive is extracted and none
\* is hashed.
C2_ChecksumEnforcement ==
    Nested(last) =>
        /\ last.enforce = has_checksums
        /\ last.enforce =>
              /\ Attempted(last) =>
                    /\ last.sha.exists
                    /\ last.expected # NoDigest
                    /\ StrLen(last.expected) = HexLen
                    /\ Hashed(last)
                    /\ StrLower(last.actual) = StrLower(last.expected)
              /\ (~last.sha.exists \/ last.expected = NoDigest \/ Differs(last)) =>
                    /\ ~Attempted(last)
                    /\ last.wrote = {}
                    /\ ok < total
                    /\ pc = "loop"
        /\ ~last.enforce =>
              /\ Attempted(last)
              /\ ~Hashed(last)
              /\ last.sha = ShaNotLooked
              /\ pc = "loop"

\* a nested archive with a mismatching digest was skipped, siblings remaining
C2_Witness ==
    /\ Nested(last)
    /\ last.enforce
    /\ Differs(last)
    /\ ~Attempted(last)
    /\ pc = "loop"
    /\ idx < Len(archives)

\* C3: with a top-level checksum directory that holds a valid digest for the
\* archive, the archive is hashed, and on a mismatch the run ends in failure
\* with the archive never extracted and nothing written; with the checksum
\* file missing or invalid a warning is issued and the archive is extracted
\* without verification.
C3_TopLevelChecksum ==
    (last.sub = "top" /\ checksum_dir = "dir") =>
        /\ (last.sha.exists /\ last.expected # NoDigest) => Hashed(last)
        /\ Differs(last) =>
              /\ ~Attempted(last)
              /\ last.wrote = {}
              /\ result = 1
              /\ pc \in {"returned", "exited"}
              /\ pc = "exited" => exit_code = 1
        /\ (~last.sha.exists \/ last.expected = NoDigest) =>
              /\ last.msg \in {"checksum file missing -> extract unconditionally",
                               "invalid checksum file format -> extract unconditionally"}
              /\ Attempted(last)
              /\ ~Hashed(last)

\* the top-level archive failed its checksum and the program has exited
C3_Witness ==
    /\ last.sub = "top"
    /\ checksum_dir = "dir"
    /\ Differs(last)
    /\ pc = "exited"

\* the resolved target of a member lies outside the directory
Outside(dir, name) ==
    LET target == Resolve(JoinPath(dir, name))
    IN  ~\E k \in 0..Len(target) :
            target = dir \o SubSeq(target, Len(target) - k + 1, Len(target))

\* C4: an archive that opens as a tar.xz container with a member whose
\* resolved target lies outside the destination, at any position, makes
\* extract_tar_xz raise the path-traversal error with no file written and
\* without the raw fallback; the caller treats it as an extraction error (a
\* nested archive is skipped and not counted, the top-level one fails the run).
C4_PathTraversalBlocked ==
    (/\ Attempted(last)
     /\ last.content.kind = "tar"
     /\ \E i \in 1..Len(last.content.members) :
           Outside(TargetDir(last), last.content.members[i])) =>
        /\ last.ret = "exc"
        /\ last.err = "Blocked path traversal attempt"
        /\ last.wrote = {}
        /\ last.sub = "top" => (result = 1 /\ pc \in {"returned", "exited"})
        /\ Nested(last) => (ok < total /\ pc = "loop")

\* a nested archive whose second member escapes was blocked
C4_Witness ==
    /\ last.sub = "attack_data"
    /\ last.content.members = <<MemberIn, MemberUp>>
    /\ last.err = "Blocked path traversal attempt"
    /\ last.wrote = {}
    /\ pc = "loop"

PayloadTar == <<"p", "a", "y", "l", "o", "a", "d", ".", "t", "a", "r">>

Payload == <<"p", "a", "y", "l", "o", "a", "d">>

\* a raw .xz stream named payload.tar.xz was handed to extract_tar_xz and
\* writing its output met no error
RawPayload ==
    /\ last.name = NamePayload
    /\ last.content.kind = "rawxz"
    /\ Attempted(last)
    /\ last.err # "OSError"

\* C6 as stated: the raw fallback writes exactly one file, named payload.tar.
C6_RawOutputNamedPayloadTar ==
    RawPayload =>
        /\ last.ret = "rawxz"
        /\ last.wrote = {File(TargetDir(last) \o <<PayloadTar>>, "decompressed")}

\* C6 as amended: given a raw .xz stream in a file named payload.tar.xz,
\* extract_tar_xz falls back to raw mode and writes exactly one file, named
\* payload (both the .xz and the .tar suffix are removed), holding the
\* decompressed bytes.
C6_RawOutputNamedPayload ==
    RawPayload =>
        /\ last.ret = "rawxz"
        /\ last.wrote = {File(TargetDir(last) \o <<Payload>>, "decompressed")}

\* payload.tar.xz was decompressed in raw mode
C6_Witness == RawPayload /\ last.ret = "rawxz"

SetMin(S) == CHOOSE x \in S : \A y \in S : x <= y

\* the text up to its first line break
ClaimFirstLine(s) ==
    LET breaks == {i \in 1..Len(s) : IsLineBreak(s[i].c)}
    IN  IF breaks = {} THEN s ELSE SubSeq(s, 1, SetMin(breaks) - 1)

\* the first whitespace-delimited token of a text
ClaimToken(s) ==
    LET starts == {i \in 1..Len(s) : ~IsSpace(s[i].c)}
    IN  IF starts = {} THEN <<>>
        ELSE LET a == SetMin(starts)
                 stops == {i \in a..Len(s) : IsSpace(s[i].c)}
             IN  SubSeq(s, a, IF stops = {} THEN Len(s) ELSE SetMin(stops) - 1)

ClaimHexChars(s) == SelectSeq(s, LAMBDA r : Lower(r.c) \in LowerHexDigits)

\* C7 as stated: the value is the first token of the first line when that
\* token is a 64-character hex string, and None for every other content.
C7_FirstTokenOfFirstLine ==
    pc = "reader_done" =>
        LET token == ClaimToken(ClaimFirstLine(reader_file.content))
        IN  IF /\ reader_file.readable
               /\ StrLen(token) = HexLen
               /\ ClaimHexChars(token) = token
            THEN reader_ret = Norm(token)
            ELSE reader_ret = NoDigest

\* C7 as amended: read_expected_sha256 takes the first whitespace-delimited
\* token of the text (blank lines and blanks before it are skipped), removes
\* from it every character that is no hex digit, and returns what remains, in
\* the case it was written in, when exactly 64 characters remain; for every
\* other content and for a file that cannot be read it returns None; it
\* never raises.
C7_CleanedFirstToken ==
    pc = "reader_done" =>
        LET cleaned == ClaimHexChars(ClaimToken(reader_file.content))
        IN  IF reader_file.readable /\ StrLen(cleaned) = HexLen
            THEN reader_ret = Norm(cleaned)
            ELSE reader_ret = NoDigest

\* a token holding a character that is no hex digit yielded a digest
C7_Witness ==
    /\ pc = "reader_done"
    /\ reader_ret # NoDigest
    /\ ClaimHexChars(ClaimToken(reader_file.content)) # ClaimToken(reader_file.content)

InDir(dir, path) == Len(path) > Len(dir) /\ SubSeq(path, 1, Len(dir)) = dir

ClaimOutDir(name) ==
    DestDir \o (IF name = "attack_data" THEN <<EXTRACTED_ATTACK_DATA>>
                ELSE <<EXTRACTED_BENIGN_DATA>>)

\* C10: a nested archive is hashed or extracted only after the top-level
\* archive has been extracted successfully; once an archive of benign_data is
\* handled none of attack_data follows; within a subdirectory the archives
\* are handled in ascending name order, one step each, the hash before the
\* extraction; and a step writes only below the folder of its subdirectory.
C10_Ordering ==
    [][/\ (last' # last /\ Nested(last')) =>
             /\ top.rc = 1
             /\ last'.sub = sub
             /\ \A i \in 1..Len(last'.ops) :
                   /\ last'.ops[i].op = "extract" =>
                         last'.ops[i].dir = ClaimOutDir(last'.sub)
                   /\ last'.ops[i].op = "hash" =>
                         \A j \in 1..Len(last'.ops) :
                             last'.ops[j].op = "extract" => i < j
             /\ \A f \in last'.wrote : InDir(ClaimOutDir(last'.sub), f.path)
             /\ Nested(last) =>
                   (last.sub = last'.sub /\ StrLess(last.name, last'.name))
       /\ sub = "benign_data" => sub' = "benign_data"
       /\ (top'.found = "no" \/ top'.rc = 0) => ~Nested(last')]_vars

\* the second archive of benign_data was hashed and then extracted
C10_Witness ==
    /\ sub = "benign_data"
    /\ idx = 2
    /\ Nested(last)
    /\ Len(last.ops) = 2
    /\ Extracted(last)

====
